---------------------------- MODULE Spec2Model ----------------------------
(* State-machine model of stackstac/rio_reader.py:                          *)
(*   AutoParallelRioReader  (the strategy-selecting reader),                *)
(*   SingleThreadedRioDataset (one handle, reads serialised by a lock),     *)
(*   ThreadLocalRioDataset  (one private native dataset per thread),        *)
(* driven by a fixed set of threads that call read and close.               *)
(*                                                                          *)
(* Three specifications share the variables:                                *)
(*   Spec      threads call AutoParallelRioReader.read / .close             *)
(*   SpecPool  threads call ThreadLocalRioDataset.read / .close directly    *)
(*   SpecData  the array post-processing of AutoParallelRioReader.read      *)
EXTENDS Integers, Sequences, FiniteSets, TLC

(* ------------------------------ bounds --------------------------------- *)
NThreads == 2
MaxHandles == 2
MaxInst == 3
MaxCloses == 2
MaxH == 3
MaxW == 2
MaxCalls == 4

Threads == 1..NThreads
Handles == 1..MaxHandles
Insts == 1..MaxInst

(* ------------------------ program constants ---------------------------- *)
MULTITHREADED_DRIVER_ALLOWLIST == {"GTiff"}

None == 0
Drivers == {"GTiff", "HDF5"}
Errors == {"IOError", "RuntimeError"}

VARIABLES
  (* the resource behind the url, and the reader's constructor arguments *)
  resCount,          \* ds.count of the resource
  resDriver,         \* ds.driver of the resource
  errors_as_nodata,  \* AutoParallelRioReader.errors_as_nodata
  direct,            \* TRUE: threads call the pool itself (SpecPool)
  (* AutoParallelRioReader *)
  dataset,           \* self._dataset: None or a delegate handle
  dataset_lock,      \* self._dataset_lock: None or the holding thread
  (* delegate handles *)
  kind,              \* "none" | "ND" NodataReader | "ST" | "TL"
  nHandles,
  stLock,            \* SingleThreadedRioDataset._lock
  stInst,            \* SingleThreadedRioDataset.ds
  tlTable,           \* ThreadLocalRioDataset._threadlocal : thread -> dataset
  tlGen,             \* how many times _threadlocal was replaced
  tlLock,            \* ThreadLocalRioDataset._lock
  (* native datasets *)
  nInst,
  instOpener,        \* the thread that opened the dataset
  instPool,          \* the delegate handle the dataset was opened for
  instClosed,        \* datasets on which close() has run
  (* threads *)
  pc,
  reader,            \* the local `reader` of read / the handle being used
  cur,               \* the dataset a thread reads from
  (* history *)
  lastRet,           \* how the last call that returned did return
  closeCalls,        \* calls of a delegate's close by the reader
  hadFail,           \* a read on the handle failed with a recognised error
  lookGen,           \* tlGen at the thread's last lookup in the pool
  first,             \* that lookup was the thread's first in that table
  opened,            \* the read opened a dataset for its thread
  carried,           \* the thread's entry was stored by a read that did
                     \* its lookup before the last close
  everServed,        \* the pool has given the thread a dataset
  servedAtClose,     \* everServed as it was at the last close
  (* SpecData *)
  dPhase, dWindow, dScale, dOffset, dFill, dSource, dNative, dOut,
  (* SpecPickle *)
  pPhase,            \* "off" | "live" | "snap" | "restored" | "read"
  original,          \* the attributes of the reader that is snapshotted
  state,             \* what __getstate__ returned
  restored,          \* the attributes of the reader __setstate__ built
  nLocks,            \* threading.Lock objects made so far
  pResp,             \* how the resource answered the compared reads
  pOpen,             \* <<original, restored>>: the read went through _open
  pOut,              \* <<original, restored>>: what the read returned
  (* SpecLive *)
  callsLeft          \* the calls the threads will still make, or Unlimited

cfgVars == <<resCount, resDriver, errors_as_nodata, direct>>
rdrVars == <<dataset, dataset_lock>>
hdlVars == <<kind, nHandles, stLock, stInst, tlTable, tlGen, tlLock>>
instVars == <<nInst, instOpener, instPool, instClosed>>
thrVars == <<pc, reader, cur>>
poolHist == <<lookGen, first, opened, carried, everServed, servedAtClose>>
histVars == <<lastRet, closeCalls, hadFail, poolHist>>
dataVars == <<dPhase, dWindow, dScale, dOffset, dFill, dSource, dNative, dOut>>
pklVars == <<pPhase, original, state, restored, nLocks, pResp, pOpen, pOut>>
sideVars == <<dataVars, pklVars, callsLeft>>
vars == <<cfgVars, rdrVars, hdlVars, instVars, thrVars, histVars, sideVars>>

EmptyTable == [t \in Threads |-> None]

Unlimited == -1

(* ------------------------------ helpers -------------------------------- *)

\* nodata_reader.exception_matches(e, errors_as_nodata)
ExceptionMatches(e, recognised) == e \in recognised

\* `with self._dataset_lock:` can be entered
DatasetLockFree_NoLock == TRUE
DatasetLockFree == dataset_lock = None

\* the holder of the reader's lock once thread t has left the
\* `with self._dataset_lock` block of the dataset property, _open having
\* returned a delegate or raised
DatasetLockAfterOpen_LeakOnRaise(t, raised) == IF raised THEN t ELSE None
DatasetLockAfterOpen(t, raised) == None

\* `if self._dataset is None:` in the dataset property
NeedsOpen_RetryDegraded ==
  dataset = None \/ (dataset # None /\ kind[dataset] = "ND")
NeedsOpen == dataset = None

\* the delegate _open builds for a single-band dataset of driver d
StrategyFor_AlwaysSingle(d) == "ST"
StrategyFor(d) ==
  IF d \in MULTITHREADED_DRIVER_ALLOWLIST THEN "TL" ELSE "ST"

\* `if ds.count != 1:` in _open
BandCountOk_Any(c) == TRUE
BandCountOk(c) == c = 1

\* the except clause of AutoParallelRioReader.read
ReadErrorResult_Raise(e) == "raise"
ReadErrorResult_Fill(e) == "fill"
ReadErrorResult(e) ==
  IF ExceptionMatches(e, errors_as_nodata) THEN "fill" ELSE "raise"

\* `with self._lock` of a SingleThreadedRioDataset can be entered
StLockFree_NoLock(h) == TRUE
StLockFree(h) == stLock[h] = None

\* the holder of a SingleThreadedRioDataset's lock once thread t has left
\* the `with self._lock` block of read, the native read having ended with o
StLockAfterRead_LeakOnRaise(t, o) == IF o = "ok" THEN None ELSE t
StLockAfterRead(t, o) == None

\* `with self._lock` of a ThreadLocalRioDataset can be entered
TlLockFree_NoLock(h) == TRUE
TlLockFree(h) == tlLock[h] = None

\* the holder of a ThreadLocalRioDataset's lock once thread t has left the
\* `with self._lock` block of _open
TlLockAfterStore_Held(t) == t
TlLockAfterStore(t) == None

\* `self._threadlocal.vrt or self._threadlocal.ds` for the calling thread;
\* None stands for the AttributeError of an unset attribute
TLLookup_Shared(h, t) ==
  IF \E u \in Threads : tlTable[h][u] # None
  THEN tlTable[h][CHOOSE u \in Threads : tlTable[h][u] # None]
  ELSE None
TLLookup(h, t) == tlTable[h][t]

\* `self._threadlocal = threading.local()` in ThreadLocalRioDataset.close
ClosedTable_Keep(h) == tlTable[h]
ClosedTable(h) == EmptyTable

\* `self._dataset = None` at the end of AutoParallelRioReader.close
DatasetAfterClose_Keep(h) == h
DatasetAfterClose(h) == None

(* ------------------------------- Init ---------------------------------- *)

NoArray == [nd |-> 0]

NoData ==
  /\ dPhase = "off" /\ dWindow = <<1, 1>> /\ dScale = 1 /\ dOffset = 0
  /\ dFill = 0 /\ dSource = "none" /\ dNative = NoArray /\ dOut = NoArray

NoReader == [k \in {} |-> None]

NoPickle ==
  /\ pPhase = "off" /\ original = NoReader /\ state = NoReader
  /\ restored = NoReader /\ nLocks = 1 /\ pResp = NoArray
  /\ pOpen = <<FALSE, FALSE>> /\ pOut = <<NoArray, NoArray>>

InitCommon ==
  /\ dataset = None
  /\ dataset_lock = None
  /\ stLock = [h \in Handles |-> None]
  /\ stInst = [h \in Handles |-> None]
  /\ tlGen = [h \in Handles |-> 0]
  /\ tlLock = [h \in Handles |-> None]
  /\ instClosed = {}
  /\ pc = [t \in Threads |-> "idle"]
  /\ reader = [t \in Threads |-> None]
  /\ cur = [t \in Threads |-> None]
  /\ lastRet = "none"
  /\ closeCalls = [h \in Handles |-> 0]
  /\ hadFail = [h \in Handles |-> FALSE]
  /\ lookGen = [t \in Threads |-> -1]
  /\ first = [t \in Threads |-> FALSE]
  /\ opened = [t \in Threads |-> FALSE]
  /\ carried = [t \in Threads |-> FALSE]
  /\ servedAtClose = [t \in Threads |-> FALSE]

\* AutoParallelRioReader.__init__: nothing is opened
InitReader ==
  /\ InitCommon
  /\ NoData
  /\ NoPickle
  /\ direct = FALSE
  /\ resCount \in {1, 2}
  /\ resDriver \in Drivers
  /\ errors_as_nodata \in SUBSET Errors
  /\ kind = [h \in Handles |-> "none"]
  /\ nHandles = 0
  /\ tlTable = [h \in Handles |-> EmptyTable]
  /\ nInst = 0
  /\ instOpener = [i \in Insts |-> None]
  /\ instPool = [i \in Insts |-> None]
  /\ everServed = [t \in Threads |-> FALSE]

\* the pool datasets that nothing refers to any more: not in their pool's
\* current _threadlocal, and no thread is using them
\* (CPython finalises them as soon as the last reference goes: their
\* __del__ runs, as a step of its own, before any further call begins)
Unreferenced ==
  {i \in 1..nInst :
     /\ instPool[i] # None
     /\ kind[instPool[i]] = "TL"
     /\ i \notin instClosed
     /\ \A t \in Threads : tlTable[instPool[i]][t] # i /\ cur[t] # i}

\* the threads call the reader as often as they like
Init == InitReader /\ callsLeft = Unlimited

\* thread t returns from its call
Return(t, v) ==
  /\ lastRet' = v
  /\ pc' = [pc EXCEPT ![t] = "idle"]
  /\ reader' = [reader EXCEPT ![t] = None]
  /\ cur' = [cur EXCEPT ![t] = None]

(* ------------------- AutoParallelRioReader.read ------------------------ *)

\* read is called: `reader = self.dataset` is next
ReadCall(t) ==
  /\ Unreferenced = {}
  /\ ~direct
  /\ pc[t] = "idle"
  /\ callsLeft # 0
  /\ callsLeft' = IF callsLeft = Unlimited THEN Unlimited ELSE callsLeft - 1
  /\ pc' = [pc EXCEPT ![t] = "r_lock"]
  /\ UNCHANGED <<cfgVars, rdrVars, hdlVars, instVars, reader, cur,
                 histVars, dataVars, pklVars>>

\* the dataset property: take the lock; return the stored delegate, or
\* enter _open with the lock held
GetDataset(t) ==
  /\ pc[t] = "r_lock"
  /\ DatasetLockFree
  /\ IF NeedsOpen
     THEN /\ nHandles < MaxHandles
          /\ nInst < MaxInst
          /\ dataset_lock' = t
          /\ pc' = [pc EXCEPT ![t] = "r_opening"]
          /\ UNCHANGED reader
     ELSE /\ reader' = [reader EXCEPT ![t] = dataset]
          /\ pc' = [pc EXCEPT ![t] = "r_call"]
          /\ UNCHANGED dataset_lock
  /\ UNCHANGED <<cfgVars, dataset, hdlVars, instVars, cur, histVars,
                 sideVars>>

\* _open: SelfCleaningDatasetReader(url) raises e
OpenFails(t) ==
  /\ pc[t] = "r_opening"
  /\ nHandles < MaxHandles
  /\ \E e \in Errors :
       IF ExceptionMatches(e, errors_as_nodata)
       THEN LET h == nHandles + 1 IN
            /\ nHandles' = h
            /\ kind' = [kind EXCEPT ![h] = "ND"]
            /\ dataset' = h
            /\ dataset_lock' = DatasetLockAfterOpen(t, FALSE)
            /\ reader' = [reader EXCEPT ![t] = h]
            /\ pc' = [pc EXCEPT ![t] = "r_call"]
            /\ UNCHANGED <<cur, lastRet>>
       ELSE /\ Return(t, "raise")
            /\ dataset_lock' = DatasetLockAfterOpen(t, TRUE)
            /\ UNCHANGED <<nHandles, kind, dataset>>
  /\ UNCHANGED <<cfgVars, stLock, stInst, tlTable, tlGen, tlLock, instVars,
                 closeCalls, hadFail, poolHist, sideVars>>

\* _open: the dataset opens; band check, then the delegate is chosen
OpenSucceeds(t) ==
  /\ pc[t] = "r_opening"
  /\ nHandles < MaxHandles
  /\ nInst < MaxInst
  /\ LET i == nInst + 1
         h == nHandles + 1
     IN
     /\ nInst' = i
     /\ instOpener' = [instOpener EXCEPT ![i] = t]
     /\ IF ~BandCountOk(resCount)
        THEN /\ instClosed' = instClosed \cup {i}
             /\ Return(t, "raise")
             /\ UNCHANGED <<nHandles, kind, dataset, instPool, tlTable,
                            stInst>>
        ELSE /\ nHandles' = h
             /\ kind' = [kind EXCEPT ![h] = StrategyFor(resDriver)]
             /\ instPool' = [instPool EXCEPT ![i] = h]
             /\ IF StrategyFor(resDriver) = "TL"
                THEN /\ tlTable' = [tlTable EXCEPT
                                      ![h] = [EmptyTable EXCEPT ![t] = i]]
                     /\ UNCHANGED stInst
                ELSE /\ stInst' = [stInst EXCEPT ![h] = i]
                     /\ UNCHANGED tlTable
             /\ dataset' = h
             /\ reader' = [reader EXCEPT ![t] = h]
             /\ pc' = [pc EXCEPT ![t] = "r_call"]
             /\ UNCHANGED <<cur, lastRet, instClosed>>
  /\ dataset_lock' = DatasetLockAfterOpen(t, ~BandCountOk(resCount))
  /\ UNCHANGED <<cfgVars, stLock, tlGen, tlLock, closeCalls, hadFail,
                 poolHist, sideVars>>

\* what a call returns when the delegate's read returned an array / raised
Returned == IF direct THEN "raw" ELSE "data"
Raised(e) == IF direct THEN "raise" ELSE ReadErrorResult(e)

\* the delegate is a NodataReader: its read returns at once
NodataRead(t) ==
  /\ pc[t] = "r_call"
  /\ kind[reader[t]] = "ND"
  /\ Return(t, "nodata")
  /\ UNCHANGED <<cfgVars, rdrVars, hdlVars, instVars, closeCalls, hadFail,
                 poolHist, sideVars>>

(* --------------------- SingleThreadedRioDataset ------------------------ *)

\* read: `with self._lock` entered, the native read begins
STAcquire(t) ==
  /\ pc[t] = "r_call"
  /\ kind[reader[t]] = "ST"
  /\ StLockFree(reader[t])
  /\ stLock' = [stLock EXCEPT ![reader[t]] = t]
  /\ cur' = [cur EXCEPT ![t] = stInst[reader[t]]]
  /\ pc' = [pc EXCEPT ![t] = "st_reading"]
  /\ UNCHANGED <<cfgVars, rdrVars, kind, nHandles, stInst, tlTable, tlGen,
                 tlLock, instVars, reader, histVars, sideVars>>

\* the outcomes of a native read on dataset i: a closed dataset only raises
ReadOutcomes(i) ==
  IF i \in instClosed THEN Errors ELSE Errors \cup {"ok"}

\* thread t's delegate read ends with outcome o
ReadEnds(t, o) ==
  /\ Return(t, IF o = "ok" THEN Returned ELSE Raised(o))
  /\ hadFail' = [hadFail EXCEPT ![reader[t]] =
                   @ \/ (o # "ok" /\ Raised(o) = "fill")]

\* read: the native read returns or raises, the lock is released
STReadReturn(t) ==
  /\ pc[t] = "st_reading"
  /\ \E o \in ReadOutcomes(cur[t]) :
       /\ ReadEnds(t, o)
       /\ stLock' = [stLock EXCEPT ![reader[t]] = StLockAfterRead(t, o)]
  /\ UNCHANGED <<cfgVars, rdrVars, kind, nHandles, stInst, tlTable, tlGen,
                 tlLock, instVars, closeCalls, poolHist, sideVars>>

(* ----------------------- ThreadLocalRioDataset ------------------------- *)

\* the dataset property: look the calling thread's dataset up under the lock
TLLookupStep(t) ==
  /\ pc[t] = "r_call"
  /\ kind[reader[t]] = "TL"
  /\ TlLockFree(reader[t])
  /\ LET e == TLLookup(reader[t], t) IN
     IF e # None
     THEN /\ cur' = [cur EXCEPT ![t] = e]
          /\ pc' = [pc EXCEPT ![t] = "tl_reading"]
     ELSE /\ nInst < MaxInst
          /\ pc' = [pc EXCEPT ![t] = "tl_opening"]
          /\ UNCHANGED cur
  /\ IF direct
     THEN /\ first' = [first EXCEPT ![t] = (lookGen[t] # tlGen[reader[t]])]
          /\ lookGen' = [lookGen EXCEPT ![t] = tlGen[reader[t]]]
          /\ opened' = [opened EXCEPT ![t] = FALSE]
          /\ everServed' = [everServed EXCEPT
                              ![t] = @ \/ TLLookup(reader[t], t) # None]
     ELSE UNCHANGED <<first, lookGen, opened, everServed>>
  /\ UNCHANGED <<cfgVars, rdrVars, hdlVars, instVars, reader, lastRet,
                 closeCalls, hadFail, carried, servedAtClose, sideVars>>

\* _open: the per-thread open raises, or it returns, `with self._lock` is
\* entered and the dataset is stored in the current _threadlocal
TLOpenReturn(t) ==
  /\ pc[t] = "tl_opening"
  /\ nInst < MaxInst
  /\ LET h == reader[t]
         i == nInst + 1
     IN
     \E o \in Errors \cup {"ok"} :
       IF o = "ok"
       THEN /\ TlLockFree(h)
            /\ tlLock' = [tlLock EXCEPT ![h] = t]
            /\ nInst' = i
            /\ instOpener' = [instOpener EXCEPT ![i] = t]
            /\ instPool' = [instPool EXCEPT ![i] = h]
            /\ tlTable' = [tlTable EXCEPT ![h][t] = i]
            /\ cur' = [cur EXCEPT ![t] = i]
            /\ pc' = [pc EXCEPT ![t] = "tl_storing"]
            /\ IF direct
               THEN /\ opened' = [opened EXCEPT ![t] = TRUE]
                    /\ carried' = [carried EXCEPT
                                     ![t] = (lookGen[t] # tlGen[h])]
                    /\ everServed' = [everServed EXCEPT ![t] = TRUE]
               ELSE UNCHANGED <<opened, carried, everServed>>
            /\ UNCHANGED <<reader, lastRet, hadFail>>
       ELSE /\ ReadEnds(t, o)
            /\ UNCHANGED <<nInst, instOpener, instPool, tlTable, tlLock,
                           opened, carried, everServed>>
  /\ UNCHANGED <<cfgVars, rdrVars, kind, nHandles, stLock, stInst, tlGen,
                 instClosed, closeCalls, lookGen, first, servedAtClose,
                 sideVars>>

\* _open: the `with self._lock` block of the store is left
TLStoreReturn(t) ==
  /\ pc[t] = "tl_storing"
  /\ tlLock' = [tlLock EXCEPT ![reader[t]] = TlLockAfterStore(t)]
  /\ pc' = [pc EXCEPT ![t] = "tl_reading"]
  /\ UNCHANGED <<cfgVars, rdrVars, kind, nHandles, stLock, stInst, tlTable,
                 tlGen, instVars, reader, cur, histVars, sideVars>>

\* read: the native read on the thread's dataset returns or raises
TLReadReturn(t) ==
  /\ pc[t] = "tl_reading"
  /\ \E o \in ReadOutcomes(cur[t]) : ReadEnds(t, o)
  /\ UNCHANGED <<cfgVars, rdrVars, hdlVars, instVars, closeCalls, poolHist,
                 sideVars>>

(* ------------------- AutoParallelRioReader.close ----------------------- *)

CloseCall(t) ==
  /\ Unreferenced = {}
  /\ ~direct
  /\ pc[t] = "idle"
  /\ callsLeft # 0
  /\ callsLeft' = IF callsLeft = Unlimited THEN Unlimited ELSE callsLeft - 1
  /\ pc' = [pc EXCEPT ![t] = "c_lock"]
  /\ UNCHANGED <<cfgVars, rdrVars, hdlVars, instVars, reader, cur,
                 histVars, dataVars, pklVars>>

\* `with self._dataset_lock: if self._dataset is None: return`
CloseAcquire(t) ==
  /\ pc[t] = "c_lock"
  /\ DatasetLockFree
  /\ IF dataset = None
     THEN /\ Return(t, "noop")
          /\ UNCHANGED dataset_lock
     ELSE /\ dataset_lock' = t
          /\ reader' = [reader EXCEPT ![t] = dataset]
          /\ pc' = [pc EXCEPT ![t] = "c_closing"]
          /\ UNCHANGED <<cur, lastRet>>
  /\ UNCHANGED <<cfgVars, dataset, hdlVars, instVars, closeCalls, hadFail,
                 poolHist, sideVars>>

\* `self._dataset.close(); self._dataset = None`, then the lock is released.
\* The delegate's close: NodataReader nothing; SingleThreadedRioDataset
\* takes its lock and closes the dataset; ThreadLocalRioDataset replaces
\* its _threadlocal.
CloseDelegate(t) ==
  /\ pc[t] = "c_closing"
  /\ LET h == reader[t] IN
     /\ kind[h] = "ST" => StLockFree(h)
     /\ kind[h] = "TL" => TlLockFree(h)
     /\ instClosed' = IF kind[h] = "ST" THEN instClosed \cup {stInst[h]}
                      ELSE instClosed
     /\ tlTable' = IF kind[h] = "TL"
                   THEN [tlTable EXCEPT ![h] = ClosedTable(h)]
                   ELSE tlTable
     /\ tlGen' = IF kind[h] = "TL" THEN [tlGen EXCEPT ![h] = @ + 1]
                 ELSE tlGen
     /\ closeCalls' = [closeCalls EXCEPT ![h] = @ + 1]
     /\ dataset' = DatasetAfterClose(h)
  /\ dataset_lock' = None
  /\ Return(t, "closed")
  /\ UNCHANGED <<cfgVars, kind, nHandles, stLock, stInst, tlLock, nInst,
                 instOpener, instPool, hadFail, poolHist, sideVars>>

(* --------------------- SelfCleaningDatasetReader ----------------------- *)

\* a garbage collection: __del__ closes the datasets nothing refers to
Collect ==
  /\ Unreferenced # {}
  /\ instClosed' = instClosed \cup Unreferenced
  /\ UNCHANGED <<cfgVars, rdrVars, hdlVars, nInst, instOpener, instPool,
                 thrVars, histVars, sideVars>>

(* ------------- ThreadLocalRioDataset used on its own ------------------- *)

ThePool == 1

\* ThreadLocalRioDataset.__init__ run by thread c on its open dataset
InitPool ==
  /\ InitCommon
  /\ callsLeft = Unlimited
  /\ NoData
  /\ NoPickle
  /\ direct = TRUE
  /\ resCount = 1
  /\ resDriver = "GTiff"
  /\ errors_as_nodata = {}
  /\ kind = [h \in Handles |-> IF h = ThePool THEN "TL" ELSE "none"]
  /\ nHandles = 1
  /\ nInst = 1
  /\ instPool = [i \in Insts |-> IF i = 1 THEN ThePool ELSE None]
  /\ \E c \in Threads :
       /\ tlTable = [h \in Handles |->
                       IF h = ThePool THEN [EmptyTable EXCEPT ![c] = 1]
                       ELSE EmptyTable]
       /\ everServed = [t \in Threads |-> t = c]
       /\ instOpener = [i \in Insts |-> IF i = 1 THEN c ELSE None]

\* a thread calls the pool's read
PoolReadCall(t) ==
  /\ Unreferenced = {}
  /\ direct
  /\ pc[t] = "idle"
  /\ pc' = [pc EXCEPT ![t] = "r_call"]
  /\ reader' = [reader EXCEPT ![t] = ThePool]
  /\ UNCHANGED <<cfgVars, rdrVars, hdlVars, instVars, cur, histVars,
                 sideVars>>

\* a thread calls the pool's close: the table is replaced under the lock
PoolClose(t) ==
  /\ Unreferenced = {}
  /\ direct
  /\ pc[t] = "idle"
  /\ tlGen[ThePool] < MaxCloses
  /\ TlLockFree(ThePool)
  /\ tlTable' = [tlTable EXCEPT ![ThePool] = ClosedTable(ThePool)]
  /\ tlGen' = [tlGen EXCEPT ![ThePool] = @ + 1]
  /\ carried' = [u \in Threads |-> FALSE]
  /\ servedAtClose' = everServed
  /\ lastRet' = "closed"
  /\ UNCHANGED <<cfgVars, rdrVars, kind, nHandles, stLock, stInst, tlLock,
                 instVars, thrVars, closeCalls, hadFail, lookGen, first,
                 opened, everServed, sideVars>>

(* --------------------------- specifications ---------------------------- *)

Next ==
  \/ Collect
  \/ \E t \in Threads :
    \/ ReadCall(t)
    \/ GetDataset(t)
    \/ OpenFails(t)
    \/ OpenSucceeds(t)
    \/ NodataRead(t)
    \/ STAcquire(t)
    \/ STReadReturn(t)
    \/ TLLookupStep(t)
    \/ TLOpenReturn(t)
    \/ TLStoreReturn(t)
    \/ TLReadReturn(t)
    \/ CloseCall(t)
    \/ CloseAcquire(t)
    \/ CloseDelegate(t)

Spec == Init /\ [][Next]_vars

\* the steps thread t takes inside a call it has made
ThreadStep(t) ==
  \/ GetDataset(t)
  \/ OpenFails(t)
  \/ OpenSucceeds(t)
  \/ NodataRead(t)
  \/ STAcquire(t)
  \/ STReadReturn(t)
  \/ TLLookupStep(t)
  \/ TLOpenReturn(t)
  \/ TLStoreReturn(t)
  \/ TLReadReturn(t)
  \/ CloseAcquire(t)
  \/ CloseDelegate(t)

\* a reader of a single-band resource with one recognised error, on which
\* the threads make MaxCalls calls in all
InitLive ==
  /\ InitReader
  /\ callsLeft = MaxCalls
  /\ resCount = 1
  /\ errors_as_nodata = {"IOError"}

\* Every native open, read and close terminates and every thread inside a
\* call keeps being scheduled.
Fairness == \A t \in Threads : WF_vars(ThreadStep(t))

SpecLive == InitLive /\ [][Next]_vars /\ Fairness

NextPool ==
  \/ Collect
  \/ \E t \in Threads :
    \/ PoolReadCall(t)
    \/ TLLookupStep(t)
    \/ TLOpenReturn(t)
    \/ TLStoreReturn(t)
    \/ TLReadReturn(t)
    \/ PoolClose(t)

SpecPool == InitPool /\ [][NextPool]_vars

(* ------------ the arrays of AutoParallelRioReader.read ----------------- *)
(* An array is [nd, data, mask]: nd dimensions, data and mask nested       *)
(* tuples of that depth; a plain ndarray has an all-FALSE mask.  A native  *)
(* read returns (channels, height, width), NodataReader (height, width).   *)

Scales == {1, 2}
Offsets == {0, 3}
Fills == {0, 9}
Windows == (1..MaxH) \X (1..MaxW)       \* <<height, width>>

\* the pixel the resource holds at row i, column j
Pixel(i, j) == 10 * i + j

\* nodata_reader.nodata_for_window(window, fill_value, dtype):
\* np.full((window.height, window.width), fill_value)
NodataForWindow(w, fill) ==
  [nd |-> 2,
   data |-> [i \in 1..w[1] |-> [j \in 1..w[2] |-> fill]],
   mask |-> [i \in 1..w[1] |-> [j \in 1..w[2] |-> FALSE]]]

\* NodataReader.read(window): the fill buffer for the window
NodataReaderRead(w, fill) == NodataForWindow(w, fill)

\* what reader.read(window, masked=True) of a rasterio dataset or VRT can
\* return: one channel with its mask, or data + alpha (the VRT is built
\* with add_alpha when the dataset has no nodata value).  In the second
\* case the mask of the data channel is taken from the alpha band, and,
\* as the comment above the channel selection records, may miss pixels
\* outside the dataset: it masks no pixel whose alpha is not 0.  The alpha
\* channel itself is never masked.
NativeResults(w) ==
  LET H == w[1]
      W == w[2]
      V == [i \in 1..H |-> [j \in 1..W |-> Pixel(i, j)]]
      NoMask == [i \in 1..H |-> [j \in 1..W |-> FALSE]]
      Masks == [1..H -> [1..W -> BOOLEAN]]
      \* per pixel <<alpha, masked>>
      Cells == {<<255, FALSE>>, <<0, FALSE>>, <<0, TRUE>>}
  IN {[nd |-> 3, data |-> <<V>>, mask |-> <<m>>] : m \in Masks}
     \cup {[nd |-> 3,
             data |-> <<V, [i \in 1..H |-> [j \in 1..W |-> c[i][j][1]]]>>,
             mask |-> <<[i \in 1..H |-> [j \in 1..W |-> c[i][j][2]]],
                        NoMask>>] :
             c \in [1..H -> [1..W -> Cells]]}

\* result.shape[0]
Shape0(a) == Len(a.data)

\* result[k] (k counted from 1)
Index0(a, k) == [nd |-> a.nd - 1, data |-> a.data[k], mask |-> a.mask[k]]

\* `a == 0` as a boolean mask: a masked element compares unequal
EqZero(a) ==
  IF a.nd = 1
  THEN [j \in 1..Len(a.data) |-> a.data[j] = 0 /\ ~a.mask[j]]
  ELSE [i \in 1..Len(a.data) |->
          [j \in 1..Len(a.data[i]) |-> a.data[i][j] = 0 /\ ~a.mask[i][j]]]

\* np.ma.masked_array(a, mask=m): keep_mask defaults to True, so the mask
\* a already carries is or-ed with m
MaskedArray(a, m) ==
  [a EXCEPT !.mask =
     IF a.nd = 1
     THEN [j \in 1..Len(a.mask) |-> a.mask[j] \/ m[j]]
     ELSE [i \in 1..Len(a.mask) |->
             [j \in 1..Len(a.mask[i]) |-> a.mask[i][j] \/ m[i][j]]]]

\* `result *= scale`: masked elements keep their data
TimesScale(a, scale) ==
  [a EXCEPT !.data =
     IF a.nd = 1
     THEN [j \in 1..Len(a.data) |->
             IF a.mask[j] THEN a.data[j] ELSE a.data[j] * scale]
     ELSE [i \in 1..Len(a.data) |->
             [j \in 1..Len(a.data[i]) |->
                IF a.mask[i][j] THEN a.data[i][j]
                ELSE a.data[i][j] * scale]]]

\* `result += offset`: masked elements keep their data
PlusOffset(a, offset) ==
  [a EXCEPT !.data =
     IF a.nd = 1
     THEN [j \in 1..Len(a.data) |->
             IF a.mask[j] THEN a.data[j] ELSE a.data[j] + offset]
     ELSE [i \in 1..Len(a.data) |->
             [j \in 1..Len(a.data[i]) |->
                IF a.mask[i][j] THEN a.data[i][j]
                ELSE a.data[i][j] + offset]]]

\* np.ma.filled(result, fill_value): a dense array
Filled(a, fill) ==
  [nd |-> a.nd,
   data |-> IF a.nd = 1
            THEN [j \in 1..Len(a.data) |->
                    IF a.mask[j] THEN fill ELSE a.data[j]]
            ELSE [i \in 1..Len(a.data) |->
                    [j \in 1..Len(a.data[i]) |->
                       IF a.mask[i][j] THEN fill ELSE a.data[i][j]]]]

\* the RuntimeError "Unexpected shape" in place of an array
RaiseShape == [nd |-> 0, data |-> <<>>, mask |-> <<>>]

\* the channel selection of read
SelectChannel_TrustEmbedded(a) ==
  IF Shape0(a) = 2 \/ Shape0(a) = 1 THEN Index0(a, 1)
  ELSE IF a.nd # 2 THEN RaiseShape
  ELSE a
SelectChannel(a) ==
  IF Shape0(a) = 2 THEN MaskedArray(Index0(a, 1), EqZero(Index0(a, 2)))
  ELSE IF Shape0(a) = 1 THEN Index0(a, 1)
  ELSE IF a.nd # 2 THEN RaiseShape
  ELSE a

\* read after reader.read returned a: channel selection, scale, offset,
\* fill
PostProcess(a, scale, offset, fill) ==
  LET r0 == SelectChannel(a) IN
  IF r0.nd = 0 THEN [nd |-> 0, data |-> <<>>]
  ELSE LET r1 == IF scale # 1 THEN TimesScale(r0, scale) ELSE r0
           r2 == IF offset # 0 THEN PlusOffset(r1, offset) ELSE r1
       IN Filled(r2, fill)

\* result.shape of a dense array of 1 or 2 dimensions
Shape(a) ==
  IF a.nd = 1 THEN <<Len(a.data)>> ELSE <<Len(a.data), Len(a.data[1])>>

\* a reader with its scale_offset and fill_value; nothing read yet
InitData ==
  /\ InitCommon
  /\ callsLeft = Unlimited
  /\ NoPickle
  /\ direct = FALSE
  /\ resCount = 1
  /\ resDriver = "GTiff"
  /\ errors_as_nodata = Errors
  /\ kind = [h \in Handles |-> "none"]
  /\ nHandles = 0
  /\ tlTable = [h \in Handles |-> EmptyTable]
  /\ nInst = 0
  /\ instOpener = [i \in Insts |-> None]
  /\ instPool = [i \in Insts |-> None]
  /\ everServed = [t \in Threads |-> FALSE]
  /\ dPhase = "ready"
  /\ dWindow = <<1, 1>>
  /\ dScale \in Scales
  /\ dOffset \in Offsets
  /\ dFill \in Fills
  /\ dSource = "none"
  /\ dNative = NoArray
  /\ dOut = NoArray

DataFrame ==
  /\ dPhase' = "done"
  /\ UNCHANGED <<dScale, dOffset, dFill>>
  /\ UNCHANGED <<cfgVars, rdrVars, hdlVars, instVars, thrVars, histVars,
                 pklVars, callsLeft>>

\* read(w) on a Degraded reader: the NodataReader's buffer is post-processed
DataReadNodata ==
  /\ dPhase = "ready"
  /\ \E w \in Windows :
       /\ dWindow' = w
       /\ dNative' = NodataReaderRead(w, dFill)
       /\ dOut' = PostProcess(NodataReaderRead(w, dFill), dScale, dOffset,
                              dFill)
  /\ dSource' = "nodata"
  /\ DataFrame

\* read(w) on an Opened reader whose native read returns a
DataReadNative ==
  /\ dPhase = "ready"
  /\ \E w \in Windows : \E a \in NativeResults(w) :
       /\ dWindow' = w
       /\ dNative' = a
       /\ dOut' = PostProcess(a, dScale, dOffset, dFill)
  /\ dSource' = "native"
  /\ DataFrame

\* read(w) on an Opened reader whose native read raises a recognised error
DataReadFails ==
  /\ dPhase = "ready"
  /\ \E w \in Windows :
       /\ dWindow' = w
       /\ dOut' = [nd |-> 2, data |-> NodataForWindow(w, dFill).data]
  /\ dNative' = NoArray
  /\ dSource' = "error"
  /\ DataFrame

NextData == DataReadNodata \/ DataReadNative \/ DataReadFails

SpecData == InitData /\ [][NextData]_vars

(* -------- AutoParallelRioReader.__getstate__ / __setstate__ ------------ *)
(* A reader object is the function from its attribute names to their       *)
(* values; one thread snapshots a reader, rebuilds a second reader from    *)
(* the snapshot and reads the same window from both.                       *)

DEFAULT_GDAL_ENV == "DEFAULT_GDAL_ENV"
NoEnv == "None"
Envs == {NoEnv, "env"}

\* the keys of PickleState
PickleKeys ==
  {"url", "spec", "resampling", "dtype", "fill_value", "scale_offset",
   "gdal_env", "errors_as_nodata"}

\* __init__(**kw) with `lock` the new threading.Lock(): gdal_env and
\* errors_as_nodata have defaults, nothing is opened
ReaderInit(kw, lock) ==
  [k \in PickleKeys \cup {"_dataset", "_dataset_lock"} |->
     IF k = "_dataset" THEN None
     ELSE IF k = "_dataset_lock" THEN lock
     ELSE IF k = "gdal_env"
          THEN IF k \in DOMAIN kw /\ kw[k] # NoEnv THEN kw[k]
               ELSE DEFAULT_GDAL_ENV
     ELSE IF k = "errors_as_nodata"
          THEN IF k \in DOMAIN kw THEN kw[k] ELSE {}
     ELSE kw[k]]

\* __getstate__
GetState_NoErrors(obj) ==
  [k \in PickleKeys \ {"errors_as_nodata"} |-> obj[k]]
GetState(obj) == [k \in PickleKeys |-> obj[k]]

\* __setstate__(state): self.__init__(**state)
SetState(st, lock) == ReaderInit(st, lock)

\* the RuntimeError of _open or read in place of an array
Fatal == [nd |-> 0, data |-> <<>>]

\* a native read that raises e, in place of the array it would return
ReadRaises(e) == [nd |-> 0, data |-> <<e>>, mask |-> <<>>]

PklWindows == {<<3, 1>>}

\* how the resource answers one read of window w: the open succeeds or
\* raises, the native read returns an array or raises
Responses(w) ==
  {[open |-> o, window |-> w, read |-> a] :
     o \in {"ok"} \cup Errors,
     a \in NativeResults(w) \cup {ReadRaises(e) : e \in Errors}}

\* _open of reader obj: the kind of delegate it returns, or "raise"
OpenKind(obj, resp) ==
  IF resp.open # "ok"
  THEN IF ExceptionMatches(resp.open, obj["errors_as_nodata"]) THEN "ND"
       ELSE "raise"
  ELSE IF ~BandCountOk(resCount) THEN "raise"
  ELSE StrategyFor(resDriver)

\* `reader = self.dataset` of reader obj: the kind of the delegate
DelegateKind(obj, resp) ==
  IF obj["_dataset"] = None THEN OpenKind(obj, resp)
  ELSE kind[obj["_dataset"]]

\* read(window) of reader obj whose delegate is of kind dk
ReadResult(obj, dk, resp) ==
  LET fill == obj["fill_value"]
      scale == obj["scale_offset"][1]
      offset == obj["scale_offset"][2]
  IN
  IF dk = "raise" THEN Fatal
  ELSE IF dk = "ND"
  THEN PostProcess(NodataReaderRead(resp.window, fill), scale, offset, fill)
  ELSE IF resp.read.nd = 0
  THEN IF ExceptionMatches(resp.read.data[1], obj["errors_as_nodata"])
       THEN [nd |-> 2, data |-> NodataForWindow(resp.window, fill).data]
       ELSE Fatal
  ELSE PostProcess(resp.read, scale, offset, fill)

\* the reader is constructed; the resource is as in Init
InitPickle ==
  /\ InitCommon
  /\ callsLeft = Unlimited
  /\ NoData
  /\ direct = FALSE
  /\ resCount \in {1, 2}
  /\ resDriver \in Drivers
  /\ errors_as_nodata \in SUBSET Errors
  /\ kind = [h \in Handles |-> "none"]
  /\ nHandles = 0
  /\ tlTable = [h \in Handles |-> EmptyTable]
  /\ nInst = 0
  /\ instOpener = [i \in Insts |-> None]
  /\ instPool = [i \in Insts |-> None]
  /\ everServed = [t \in Threads |-> FALSE]
  /\ pPhase = "live"
  /\ nLocks = 1
  /\ \E f \in Fills, sc \in Scales, off \in Offsets, env \in Envs :
       original =
         ReaderInit([k \in PickleKeys |->
                       IF k = "fill_value" THEN f
                       ELSE IF k = "scale_offset" THEN <<sc, off>>
                       ELSE IF k = "gdal_env" THEN env
                       ELSE IF k = "errors_as_nodata" THEN errors_as_nodata
                       ELSE k], 1)
  /\ state = NoReader
  /\ restored = NoReader
  /\ pResp = NoArray
  /\ pOpen = <<FALSE, FALSE>>
  /\ pOut = <<NoArray, NoArray>>

PklFrame ==
  UNCHANGED <<cfgVars, rdrVars, stLock, stInst, tlTable, tlGen, tlLock,
              instVars, thrVars, lastRet, hadFail, poolHist, dataVars,
              callsLeft>>

\* the original reader reads a window
PklRead ==
  /\ pPhase = "live"
  /\ nHandles < MaxHandles
  /\ \E resp \in Responses(<<3, 1>>) :
       /\ LET dk == DelegateKind(original, resp)
              h == nHandles + 1
          IN
          IF original["_dataset"] = None /\ dk # "raise"
          THEN /\ nHandles' = h
               /\ kind' = [kind EXCEPT ![h] = dk]
               /\ original' = [original EXCEPT !["_dataset"] = h]
          ELSE UNCHANGED <<nHandles, kind, original>>
  /\ UNCHANGED <<pPhase, state, restored, nLocks, pResp, pOpen, pOut,
                 closeCalls>>
  /\ PklFrame

\* the original reader is closed
PklClose ==
  /\ pPhase = "live"
  /\ original["_dataset"] # None
  /\ closeCalls' = [closeCalls EXCEPT ![original["_dataset"]] = @ + 1]
  /\ original' = [original EXCEPT !["_dataset"] = None]
  /\ UNCHANGED <<pPhase, state, restored, nLocks, pResp, pOpen, pOut,
                 nHandles, kind>>
  /\ PklFrame

\* pickling: __getstate__ of the original
PklGetState ==
  /\ pPhase = "live"
  /\ state' = GetState(original)
  /\ pPhase' = "snap"
  /\ UNCHANGED <<original, restored, nLocks, pResp, pOpen, pOut, nHandles,
                 kind, closeCalls>>
  /\ PklFrame

\* unpickling: __setstate__ on a new object
PklSetState ==
  /\ pPhase = "snap"
  /\ restored' = SetState(state, nLocks + 1)
  /\ nLocks' = nLocks + 1
  /\ pPhase' = "restored"
  /\ UNCHANGED <<original, state, pResp, pOpen, pOut, nHandles, kind,
                 closeCalls>>
  /\ PklFrame

\* the same window is read from the original and from the restored reader,
\* and the resource answers both reads alike
PklReadBoth ==
  /\ pPhase = "restored"
  /\ nHandles + (IF original["_dataset"] = None THEN 2 ELSE 1) <= MaxHandles
  /\ \E w \in PklWindows : \E resp \in Responses(w) :
       /\ LET ko == DelegateKind(original, resp)
              kc == DelegateKind(restored, resp)
              oNew == original["_dataset"] = None /\ ko # "raise"
              cNew == restored["_dataset"] = None /\ kc # "raise"
              ho == IF oNew THEN nHandles + 1 ELSE original["_dataset"]
              hc == IF cNew THEN nHandles + (IF oNew THEN 2 ELSE 1)
                    ELSE restored["_dataset"]
          IN
          /\ nHandles' = nHandles + (IF oNew THEN 1 ELSE 0)
                                  + (IF cNew THEN 1 ELSE 0)
          /\ kind' = [h \in Handles |->
                        IF oNew /\ h = ho THEN ko
                        ELSE IF cNew /\ h = hc THEN kc
                        ELSE kind[h]]
          /\ original' = [original EXCEPT !["_dataset"] = ho]
          /\ restored' = [restored EXCEPT !["_dataset"] = hc]
          /\ pOpen' = <<original["_dataset"] = None,
                        restored["_dataset"] = None>>
          /\ pOut' = <<ReadResult(original, ko, resp),
                       ReadResult(restored, kc, resp)>>
          /\ pResp' = resp
  /\ pPhase' = "read"
  /\ UNCHANGED <<state, nLocks, closeCalls>>
  /\ PklFrame

NextPickle ==
  \/ PklRead
  \/ PklClose
  \/ PklGetState
  \/ PklSetState
  \/ PklReadBoth

SpecPickle == InitPickle /\ [][NextPickle]_vars

(* ------------------------------- claims -------------------------------- *)

InRead(t) ==
  pc[t] \in {"r_call", "st_reading", "tl_opening", "tl_storing", "tl_reading"}

\* C1: when several threads call read on an Unopened reader, _open runs in
\* one thread at a time with the reader's lock held, only one delegate is
\* made until the reader is closed, and every thread that reads before the
\* close uses that delegate.
C1_OneInitialOpen ==
  /\ Cardinality({t \in Threads : pc[t] = "r_opening"}) <= 1
  /\ \A t \in Threads : pc[t] = "r_opening" => dataset_lock = t
  /\ \A h \in 1..nHandles : closeCalls[h] = 0 => dataset = h
  /\ \A t \in Threads :
       (InRead(t) /\ closeCalls[reader[t]] = 0) => reader[t] = dataset

\* one thread is inside _open while another waits for the reader's lock
C1_Witness ==
  \E t, u \in Threads :
    /\ t # u
    /\ pc[t] = "r_opening"
    /\ pc[u] = "r_lock"
    /\ dataset_lock = t

\* C2: on one SingleThreadedRioDataset at most one thread is inside the
\* native read at any instant.
C2_OneNativeReader ==
  \A h \in Handles :
    kind[h] = "ST" =>
      Cardinality({t \in Threads : pc[t] = "st_reading" /\ reader[t] = h})
        <= 1

\* one thread is inside the native read while another waits for the lock
C2_Witness ==
  \E t, u \in Threads :
    /\ t # u
    /\ pc[t] = "st_reading"
    /\ pc[u] = "r_call"
    /\ reader[u] = reader[t]
    /\ kind[reader[t]] = "ST"

\* the datasets opened for pool h, and those opened for it by thread t
PoolInsts(h) == {i \in 1..nInst : instPool[i] = h}
PoolInstsOf(h, t) == {i \in PoolInsts(h) : instOpener[i] = t}

\* C3: in a ThreadLocalRioDataset that was never closed, no thread has
\* opened more than one dataset (the initial open counts for the thread
\* that made it), so there are at most as many opens as reading threads,
\* and every native read of a thread is on the one dataset it opened.
C3_OneOpenPerThread ==
  \A h \in Handles :
    (kind[h] = "TL" /\ tlGen[h] = 0) =>
      /\ \A t \in Threads : Cardinality(PoolInstsOf(h, t)) <= 1
      /\ Cardinality(PoolInsts(h))
           <= Cardinality({t \in Threads : PoolInstsOf(h, t) # {}})
      /\ Cardinality(PoolInsts(h)) <= NThreads
      /\ \A t \in Threads :
           (pc[t] = "tl_reading" /\ reader[t] = h) =>
             /\ cur[t] \in PoolInstsOf(h, t)
             /\ cur[t] = tlTable[h][t]

\* two threads have each opened their dataset in a pool that was never
\* closed, one of them is reading from its own after an earlier read
\* returned data
C3_Witness ==
  \E h \in Handles : \E t, u \in Threads :
    /\ t # u
    /\ kind[h] = "TL" /\ tlGen[h] = 0
    /\ PoolInstsOf(h, t) # {} /\ PoolInstsOf(h, u) # {}
    /\ pc[u] = "tl_reading" /\ reader[u] = h
    /\ instOpener[cur[u]] = u
    /\ lastRet = "data"

\* thread t is in the native read of the first read that did its lookup
\* after the last close of the pool
FirstReadAfterClose(t) ==
  /\ pc[t] = "tl_reading"
  /\ first[t]
  /\ lookGen[t] >= 1
  /\ lookGen[t] = tlGen[ThePool]

\* C4 as stated: after close has returned, the next read of a thread that
\* was served before the close opens exactly one new dataset, and a thread
\* not served before still opens on its first read, whatever the
\* interleaving.
C4_Original ==
  /\ \A t \in Threads :
       (FirstReadAfterClose(t) /\ servedAtClose[t]) => opened[t]
  /\ \A t \in Threads :
       (pc[t] = "tl_reading" /\ first[t] /\ lookGen[t] = 0
          /\ instOpener[1] # t) => opened[t]

\* C4 amended: the first read after a close opens exactly one new dataset
\* unless a read of the same thread that was in the middle of its open when
\* the close landed has stored its dataset in the new table; then it opens
\* nothing.  No thread stores more than one dataset in one table.
C4_ReopenAfterClose ==
  /\ \A t \in Threads :
       FirstReadAfterClose(t) => (opened[t] <=> ~carried[t])
  /\ \A t \in Threads :
       (pc[t] = "tl_reading" /\ first[t] /\ lookGen[t] = 0
          /\ instOpener[1] # t) => opened[t]
  /\ \A t \in Threads :
       Cardinality(PoolInstsOf(ThePool, t)) <= tlGen[ThePool] + 1

\* a thread served before the close reads after it and has opened anew
C4_Witness ==
  \E t \in Threads :
    /\ FirstReadAfterClose(t)
    /\ servedAtClose[t]
    /\ opened[t]
    /\ ~carried[t]

\* every element of the dense array a of shape w equals v
AllEqual(a, w, v) ==
  \A i \in 1..w[1] : \A j \in 1..w[2] : a.data[i][j] = v

\* C5: a read on a Degraded reader returns a buffer of the window's
\* (height, width) whose every element is the fill value, for every window,
\* scale, offset and fill value.
C5_DegradedReadIsFill ==
  dSource = "nodata" =>
    /\ dOut.nd = 2
    /\ Shape(dOut) = dWindow
    /\ AllEqual(dOut, dWindow, dFill)

\* thread t's call of the delegate's read ends in this step
ReadEndsStep(t) ==
  /\ pc[t] \in {"st_reading", "tl_opening", "tl_reading"}
  /\ pc'[t] = "idle"

\* C6: a read whose native read raises a recognised error returns the fill
\* buffer, never raises, and leaves the reader as it was: the same delegate
\* stays stored and nothing about the delegates changes, so a later read
\* goes to the same delegate and returns data when its native read
\* succeeds.
C6_OnlyThatReadDegrades ==
  [][\A t \in Threads :
       ReadEndsStep(t) =>
         /\ lastRet' \in {"data", "fill", "raise"}
         /\ errors_as_nodata = Errors => lastRet' # "raise"
         /\ errors_as_nodata = {} => lastRet' # "fill"
         /\ lastRet' = "fill" =>
              /\ dataset' = dataset
              /\ kind' = kind
              /\ nHandles' = nHandles
              /\ tlTable' = tlTable
              /\ stInst' = stInst
              /\ nInst' = nInst
              /\ instClosed' = instClosed
              /\ hadFail'[reader[t]]]_vars

\* a read returned data from the one delegate of a reader on which an
\* earlier read had failed with a recognised error
C6_Witness ==
  /\ lastRet = "data"
  /\ nHandles = 1
  /\ hadFail[1]
  /\ dataset = 1
  /\ closeCalls[1] = 0

\* thread t's _open ends in this step by opening a dataset
OpenedStep(t) ==
  /\ pc[t] = "r_opening"
  /\ pc'[t] # "r_opening"
  /\ nInst' = nInst + 1

\* C7: when the dataset that _open opened has a band count other than 1,
\* the read raises whatever errors_as_nodata holds, the dataset is closed,
\* no delegate is made or stored and the reader stays Unopened with its
\* lock released.
C7_MultiBandFatal ==
  [][\A t \in Threads :
       (OpenedStep(t) /\ resCount # 1) =>
         /\ lastRet' = "raise"
         /\ pc'[t] = "idle"
         /\ (nInst + 1) \in instClosed'
         /\ nHandles' = nHandles
         /\ kind' = kind
         /\ dataset' = None
         /\ dataset_lock' = None]_vars

\* a read of a two-band resource raised although every error is recognised
C7_Witness ==
  /\ resCount = 2
  /\ errors_as_nodata = Errors
  /\ lastRet = "raise"
  /\ nInst >= 1
  /\ instClosed = 1..nInst
  /\ dataset = None
  /\ nHandles = 0

\* position (i, j) of the native result is invalid: masked in a one-channel
\* result, alpha 0 in a data + alpha result
Invalid(a, i, j) ==
  IF Shape0(a) = 1 THEN a.mask[1][i][j] ELSE a.data[2][i][j] = 0

CloseEntersStep(t) == pc[t] = "c_lock" /\ pc'[t] # "c_lock"

\* C9: close on a reader without a delegate returns without changing
\* anything; otherwise it calls the delegate's close once and clears the
\* stored delegate; no delegate is closed twice, and a read that gets its
\* delegate after the close never gets the closed one.
C9_CloseOnceAndClear ==
  [][/\ \A t \in Threads :
          (CloseEntersStep(t) /\ dataset = None) =>
            /\ lastRet' = "noop"
            /\ pc'[t] = "idle"
            /\ UNCHANGED <<rdrVars, hdlVars, instVars, closeCalls>>
     /\ \A t \in Threads :
          (CloseEntersStep(t) /\ dataset # None) => pc'[t] = "c_closing"
     /\ \A t \in Threads :
          (pc[t] = "c_closing" /\ pc'[t] = "idle") =>
            /\ closeCalls[dataset] = 0
            /\ closeCalls'[dataset] = 1
            /\ dataset' = None
            /\ lastRet' = "closed"
     /\ \A t \in Threads :
          (pc[t] = "r_lock" /\ pc'[t] = "r_call") =>
            closeCalls[reader'[t]] = 0]_vars

\* a second close returned as a no-op after the first had closed the
\* delegate
C9_Witness ==
  /\ lastRet = "noop"
  /\ nHandles = 1
  /\ closeCalls[1] = 1
  /\ dataset = None

\* C10: while a delegate is stored no thread is in or enters the initial
\* open and the stored delegate only changes by a close clearing it; a read
\* on a reader without a delegate enters the initial open.
C10_StateUntilClose ==
  [][/\ dataset # None =>
          /\ \A t \in Threads : pc[t] # "r_opening" /\ pc'[t] # "r_opening"
          /\ \/ dataset' = dataset /\ kind'[dataset] = kind[dataset]
             \/ /\ dataset' = None
                /\ \E t \in Threads : pc[t] = "c_closing" /\ pc'[t] = "idle"
     /\ \A t \in Threads :
          (pc[t] = "r_lock" /\ pc'[t] # "r_lock" /\ dataset = None) =>
            pc'[t] = "r_opening"]_vars

\* a later read on a Degraded reader is served by the stored NodataReader
C10_Witness ==
  /\ nHandles = 1
  /\ dataset = 1
  /\ kind[1] = "ND"
  /\ lastRet = "nodata"
  /\ \E t \in Threads : pc[t] = "r_call" /\ reader[t] = 1

\* reader obj is Degraded: its delegate is a NodataReader
Degraded(obj) == obj["_dataset"] # None /\ kind[obj["_dataset"]] = "ND"

\* what C11 says of the snapshot and of the reader rebuilt from it
SnapshotAndFreshStart ==
  /\ pPhase \in {"snap", "restored", "read"} =>
       /\ DOMAIN state = PickleKeys
       /\ \A k \in PickleKeys : state[k] = original[k]
  /\ pPhase = "restored" =>
       /\ restored["_dataset"] = None
       /\ restored["_dataset_lock"] # original["_dataset_lock"]
       /\ \A k \in PickleKeys : restored[k] = original[k]
  /\ pPhase = "read" =>
       /\ pOpen[2]
       /\ restored["_dataset"] # None =>
            restored["_dataset"] # original["_dataset"]

\* C11 as stated: whatever the state of the original (Unopened, Opened,
\* Degraded), the reader rebuilt from its snapshot holds exactly the eight
\* constructor arguments, starts Unopened with its own lock, shares no
\* delegate with the original, opens on its first read, and, the resource
\* being reachable, the same window read from both gives the same data.
C11_Original ==
  /\ SnapshotAndFreshStart
  /\ (pPhase = "read" /\ pResp.open = "ok") => pOut[1] = pOut[2]

\* C11 amended: as stated, but the same window gives the same data only
\* when the original is not Degraded.
C11_RoundTrip ==
  /\ SnapshotAndFreshStart
  /\ (pPhase = "read" /\ pResp.open = "ok" /\ ~Degraded(original)) =>
       pOut[1] = pOut[2]

\* an Opened original and the reader rebuilt from its snapshot have each
\* their own delegate and returned the same scaled data
C11_Witness ==
  /\ pPhase = "read"
  /\ ~pOpen[1] /\ pOpen[2]
  /\ original["_dataset"] # None /\ restored["_dataset"] # None
  /\ kind[original["_dataset"]] = "TL"
  /\ original["scale_offset"] = <<2, 3>>
  /\ pOut[1].nd = 2
  /\ pOut[1] = pOut[2]

\* C12: the delegate a successful open stores is a ThreadLocalRioDataset
\* exactly when the resource's driver is in MULTITHREADED_DRIVER_ALLOWLIST
\* and a SingleThreadedRioDataset for every other driver.
C12_StrategyByDriver ==
  [][\A t \in Threads :
       (OpenedStep(t) /\ resCount = 1) =>
         /\ dataset' # None
         /\ resDriver \in MULTITHREADED_DRIVER_ALLOWLIST =>
              kind'[dataset'] = "TL"
         /\ resDriver \notin MULTITHREADED_DRIVER_ALLOWLIST =>
              kind'[dataset'] = "ST"]_vars

\* a read returned data through the lock-serialised delegate of a resource
\* whose driver is not in the allow-list
C12_Witness ==
  /\ resDriver = "HDF5"
  /\ dataset # None
  /\ kind[dataset] = "ST"
  /\ lastRet = "data"
  /\ \A t \in Threads : pc[t] = "idle"

\* the threads inside the native open of pool h's resource
InNativeOpen(h) == {t \in Threads : pc[t] = "tl_opening" /\ reader[t] = h}

\* C13 as stated: the per-thread open is done under a shared lock, so at
\* no instant are two threads both inside the native open of the same
\* pool's resource.
C13_Original ==
  \A h \in Handles : kind[h] = "TL" => Cardinality(InNativeOpen(h)) <= 1

\* C13 amended: the per-thread native open runs outside the pool's lock;
\* only the store of the newly opened dataset is done under it, so at no
\* instant are two threads both storing into the same pool.
C13_StoreUnderLock ==
  \A h \in Handles :
    kind[h] = "TL" =>
      /\ \A t \in InNativeOpen(h) : tlLock[h] # t
      /\ \A t \in Threads :
           (pc[t] = "tl_storing" /\ reader[t] = h) => tlLock[h] = t

\* one thread is storing its new dataset under the lock while another is
\* inside its native open for the same pool
C13_Witness ==
  \E t, u \in Threads :
    /\ t # u
    /\ pc[t] = "tl_storing" /\ reader[t] = ThePool
    /\ tlLock[ThePool] = t
    /\ u \in InNativeOpen(ThePool)

\* C14: in a ThreadLocalRioDataset every native read on a dataset is done by
\* the thread that opened that dataset, for the pool it was opened for,
\* whatever reads and closes have happened.
C14_ReadByOpener ==
  \A t \in Threads :
    pc[t] = "tl_reading" =>
      /\ instOpener[cur[t]] = t
      /\ instPool[cur[t]] = reader[t]

\* after a close two threads read at once, each from the dataset it opened
C14_Witness ==
  \E t, u \in Threads :
    /\ t # u
    /\ pc[t] = "tl_reading" /\ pc[u] = "tl_reading"
    /\ tlGen[ThePool] >= 1
    /\ cur[t] # cur[u]
    /\ instOpener[cur[t]] = t /\ instOpener[cur[u]] = u

\* thread u's close of its delegate completes in this step
CloseDoneStep(u) == pc[u] = "c_closing" /\ pc'[u] = "idle"

\* C15: on a SingleThreadedRioDataset the close happens under the lock the
\* read holds: the dataset is not closed while a native read on it is in
\* progress, and the close that waited does close it.
C15_CloseWaitsForRead ==
  [][\A u \in Threads :
       (CloseDoneStep(u) /\ kind[reader[u]] = "ST") =>
         /\ \A t \in Threads :
              ~(pc[t] = "st_reading" /\ reader[t] = reader[u])
         /\ stLock[reader[u]] = None
         /\ stInst[reader[u]] \notin instClosed
         /\ stInst[reader[u]] \in instClosed']_vars

\* a close waits for the lock while a native read is in progress on the
\* still open dataset
C15_Witness ==
  \E t, u \in Threads :
    /\ pc[u] = "c_closing" /\ kind[reader[u]] = "ST"
    /\ pc[t] = "st_reading" /\ reader[t] = reader[u]
    /\ stLock[reader[u]] = t
    /\ cur[t] \notin instClosed

\* C16: the lock of a ThreadLocalRioDataset is held only while a thread
\* stores its dataset (lookup and replacement take and release it in one
\* step), never during a native read, so close does not wait for a read in
\* flight; and the dataset a native read is using stays open after close
\* has replaced the table, however the unreferenced datasets are finalised.
C16_LockNotHeldInRead ==
  /\ \A h \in Handles :
       tlLock[h] # None =>
         /\ pc[tlLock[h]] = "tl_storing"
         /\ reader[tlLock[h]] = h
  /\ \A t \in Threads :
       pc[t] = "tl_reading" => cur[t] \notin instClosed

\* a close has replaced the table while a native read was in flight: the
\* reading thread's dataset is no longer in the table and is still open,
\* while another dataset of the replaced table has been finalised
C16_Witness ==
  \E t \in Threads :
    /\ pc[t] = "tl_reading"
    /\ tlGen[ThePool] >= 1
    /\ tlTable[ThePool][t] # cur[t]
    /\ cur[t] \notin instClosed
    /\ instClosed # {}

\* C17: a thread whose read races a close stores its newly opened dataset
\* in the table the close is replacing: when the close completes, the
\* entries stored before it, the racing one included, are gone from the
\* pool's table while their threads go on reading from their datasets.
C17_RacingInsertReplaced ==
  [][\A u \in Threads :
       (CloseDoneStep(u) /\ kind[reader[u]] = "TL") =>
         \A t \in Threads :
           (pc[t] = "tl_reading" /\ reader[t] = reader[u]) =>
             /\ tlTable'[reader[u]][t] = None
             /\ cur'[t] = cur[t]
             /\ pc'[t] = "tl_reading"
             /\ cur[t] \notin instClosed']_vars

\* while a close waits for the pool's lock, a racing thread holds it and
\* has stored the dataset it opened in the table about to be replaced
C17_Witness ==
  \E t, u \in Threads :
    /\ t # u
    /\ pc[u] = "c_closing" /\ kind[reader[u]] = "TL"
    /\ pc[t] = "tl_storing" /\ reader[t] = reader[u]
    /\ tlLock[reader[u]] = t
    /\ tlTable[reader[u]][t] = cur[t]
    /\ instOpener[cur[t]] = t

\* thread t's native read ends in this step
NativeReadEndsStep(t) ==
  /\ pc[t] \in {"st_reading", "tl_reading"}
  /\ pc'[t] # pc[t]

\* C18: a read whose native read fails with an error that is not
\* recognised raises at once: the call returns after that one native read,
\* no fill buffer is substituted, and the reader keeps its delegate.
C18_UnrecognisedReadFatal ==
  [][\A t \in Threads :
       NativeReadEndsStep(t) =>
         /\ pc'[t] = "idle"
         /\ lastRet' \in {"data", "fill", "raise"}
         /\ errors_as_nodata = {} => lastRet' # "fill"
         /\ lastRet' = "raise" =>
              /\ errors_as_nodata # Errors
              /\ dataset' = dataset
              /\ UNCHANGED <<dataset_lock, kind, nHandles, stInst, tlTable,
                             tlGen, tlLock, instVars, closeCalls>>]_vars

\* a native read on the lock-serialised delegate raised an unrecognised
\* error and the reader still holds that delegate
C18_Witness ==
  /\ \A t \in Threads : pc[t] = "idle"
  /\ lastRet = "raise"
  /\ errors_as_nodata = {"IOError"}
  /\ dataset = 1
  /\ kind[1] = "ST"
  /\ closeCalls[1] = 0
  /\ instClosed = {}

\* C19 as stated: in lock-serialised mode no native read is ever issued on
\* a dataset whose close has completed.
C19_Original ==
  \A t \in Threads : pc[t] = "st_reading" => cur[t] \notin instClosed

\* C19 amended: a native read is issued on a closed dataset only by a read
\* that fetched its delegate before the close: the delegate is then no
\* longer the reader's; a read that fetches its delegate never gets one
\* whose dataset is closed.
C19_OnlyStaleReadsClosed ==
  /\ \A t \in Threads :
       (pc[t] = "st_reading" /\ cur[t] \in instClosed) =>
         /\ reader[t] # dataset
         /\ closeCalls[reader[t]] >= 1
  /\ \A t \in Threads :
       (pc[t] = "r_call" /\ kind[reader[t]] = "ST"
          /\ stInst[reader[t]] \in instClosed) =>
         /\ reader[t] # dataset
         /\ closeCalls[reader[t]] >= 1
  /\ (dataset # None /\ kind[dataset] = "ST") =>
       stInst[dataset] \notin instClosed

\* a read that fetched its delegate before the close is inside the native
\* read on the closed dataset
C19_Witness ==
  \E t \in Threads :
    /\ pc[t] = "st_reading"
    /\ cur[t] \in instClosed
    /\ reader[t] # dataset
    /\ closeCalls[reader[t]] = 1

\* who holds which lock: the reader's lock inside _open or inside close,
\* a SingleThreadedRioDataset's lock inside the native read, a
\* ThreadLocalRioDataset's lock inside the store; so a thread that holds a
\* delegate's lock never waits for any lock, and a delegate's lock is only
\* ever awaited by a thread that holds the reader's lock or none
LockOrder ==
  /\ dataset_lock # None => pc[dataset_lock] \in {"r_opening", "c_closing"}
  /\ \A t \in Threads :
       pc[t] \in {"r_opening", "c_closing"} => dataset_lock = t
  /\ \A h \in Handles :
       stLock[h] # None =>
         pc[stLock[h]] = "st_reading" /\ reader[stLock[h]] = h
  /\ \A h \in Handles :
       tlLock[h] # None =>
         pc[tlLock[h]] = "tl_storing" /\ reader[tlLock[h]] = h

\* thread t cannot go on only because the model has no dataset or delegate
\* left to hand out
BoundBlocked(t) ==
  \/ pc[t] = "r_lock" /\ NeedsOpen
       /\ (nHandles = MaxHandles \/ nInst = MaxInst)
  \/ pc[t] \in {"r_call", "tl_opening"} /\ kind[reader[t]] = "TL"
       /\ nInst = MaxInst

\* C20: no deadlock: the reader's lock is taken before a delegate's lock
\* and never the other way round, and every read and close call that has
\* begun returns, provided each native open, read and close terminates.
C20_NoDeadlock ==
  /\ []LockOrder
  /\ \A t \in Threads :
       (pc[t] # "idle") ~> (pc[t] = "idle" \/ BoundBlocked(t))

\* a close that holds the reader's lock waits for the lock of the
\* lock-serialised delegate, held by a thread inside its native read
C20_Witness ==
  \E t, u \in Threads :
    /\ t # u
    /\ pc[u] = "c_closing" /\ dataset_lock = u
    /\ kind[reader[u]] = "ST"
    /\ stLock[reader[u]] = t
    /\ pc[t] = "st_reading"

\* thread t's _open ends in this step because SelfCleaningDatasetReader
\* raised an error that is not recognised: the call is over and no
\* dataset was opened
FatalOpenStep(t) ==
  /\ pc[t] = "r_opening"
  /\ pc'[t] = "idle"
  /\ nInst' = nInst

\* thread u leaves the `with self._dataset_lock` entry of the dataset
\* property in this step
PassesLockStep(u) ==
  /\ pc[u] = "r_lock"
  /\ pc'[u] # "r_lock"

\* C21: when the initial open fails with an error that is not recognised,
\* the read that triggered it raises, no delegate is stored, the reader's
\* lock is released and the reader stays Unopened; a reader never holds a
\* half-built delegate; every thread that gets past the lock of an
\* Unopened reader enters _open itself; and no thread waits at the lock
\* for ever.
C21_FatalOpenRetried ==
  /\ [][\A t \in Threads :
          FatalOpenStep(t) =>
            /\ lastRet' = "raise"
            /\ errors_as_nodata # Errors
            /\ dataset' = None
            /\ dataset_lock' = None
            /\ nHandles' = nHandles
            /\ kind' = kind]_vars
  /\ [](dataset # None => kind[dataset] \in {"ND", "ST", "TL"})
  /\ [][\A u \in Threads :
          (PassesLockStep(u) /\ dataset = None) =>
            /\ pc'[u] = "r_opening"
            /\ dataset_lock' = u]_vars
  /\ \A u \in Threads :
       (pc[u] = "r_lock") ~> (pc[u] # "r_lock" \/ BoundBlocked(u))

\* the open has failed with an unrecognised error, nothing was stored, and
\* another read is inside _open again while a further thread waits at the
\* lock
C21_Witness ==
  \E t, u \in Threads :
    /\ t # u
    /\ lastRet = "raise"
    /\ dataset = None
    /\ nHandles = 0
    /\ nInst = 0
    /\ pc[u] = "r_opening" /\ dataset_lock = u
    /\ pc[t] = "r_lock"

=============================================================================
